---- MODULE Spec2Model ----
(***************************************************************************)
(* A model of metapkg: the requirements writer (req_writer.py), the        *)
(* manifest manager (toml_manager.py), the import scanner                  *)
(* (import_scanner.py) and the commands of cli.py that drive them.         *)
(*                                                                         *)
(* Strings are TLA+ strings.  Python functions that look inside a string   *)
(* (str.lower, the name regex of generate_from_pyproject, the comparison   *)
(* of sorted) are given as tables over the finite universe of names the    *)
(* model draws from; a name outside its table makes TLC stop.              *)
(***************************************************************************)
EXTENDS Integers, Sequences, FiniteSets, TLC

\* ------------------------------------------------------------------ bounds

\* At most this many distributions are installed in the environment.
MaxInstalled == 2

\* At most this many source files are in the project tree.
MaxFiles == 2

\* ------------------------------------------------------- helper operators

Range(s) == {s[i] : i \in 1..Len(s)}

\* Sequences of distinct elements of S, of length at most n.
RECURSIVE DistinctSeqs(_, _)
DistinctSeqs(S, n) ==
    IF n = 0 THEN {<<>>}
    ELSE LET shorter == DistinctSeqs(S, n - 1)
         IN  shorter \cup
             {Append(s, x) : <<s, x>> \in
                 {p \in shorter \X S : Len(p[1]) = n - 1 /\ p[2] \notin Range(p[1])}}

\* dict[k] = v
Put(m, k, v) == [x \in (DOMAIN m) \cup {k} |-> IF x = k THEN v ELSE m[x]]

EmptyDict == [x \in {} |-> ""]

\* The marker of an absent file and of Python's None.
NoFile == "<no file>"
None == "<None>"

\* ------------------------------------------------- strings (Python built-ins)

\* str.lower() on the names of the model: the names with an upper-case letter.
lower(s) ==
    CASE s = "PIL" -> "pil"
      [] s = "Pil" -> "pil"
      [] s = "Pillow" -> "pillow"
      [] s = "Requests" -> "requests"
      [] s = "REQUESTS" -> "requests"
      [] OTHER -> s

\* The name importlib.metadata looks a distribution up by: lower case, runs of
\* "-", "_" and "." as one "-".
canonical(s) ==
    CASE s = "scikit_learn" -> "scikit-learn"
      [] s = "tomli_w" -> "tomli-w"
      [] OTHER -> lower(s)

\* Every name that can be a key of a resolved mapping, ascending in the order
\* Python compares str (by code point: upper case before lower case, "-" before
\* letters, a prefix before its extensions).
SortedNames ==
    << "Requests", "attrs", "beautifulsoup4", "flask", "mock", "opencv-python", "pandas",
       "pip", "pytest-mock", "requests", "scikit-learn", "scikit_learn",
       "typing", "urllib3" >>

Rank(name) == CHOOSE i \in 1..Len(SortedNames) : SortedNames[i] = name

\* sorted(d.items()) of a dict with str keys: the keys in ascending order (keys
\* are unique, so the values never decide).
RECURSIVE sorted(_)
sorted(keys) ==
    IF keys = {} THEN <<>>
    ELSE LET least == CHOOSE k \in keys : \A o \in keys : Rank(k) <= Rank(o)
         IN  <<least>> \o sorted(keys \ {least})

\* ------------------------------------------------------- the environment

\* The distributions that may be installed.  name and version are the
\* distribution's metadata, top its top_level.txt (each module with whether it
\* is a package directory on sys.path), requires the distributions it declares
\* a requirement on, meta whether its metadata can be read.
Catalog ==
    { [name |-> "opencv-python", version |-> "4.8.0", meta |-> "ok",
       top |-> <<[module |-> "cv2", is_pkg |-> TRUE]>>, requires |-> {}],
      [name |-> "scikit-learn", version |-> "1.3.0", meta |-> "ok",
       top |-> <<[module |-> "sklearn", is_pkg |-> TRUE]>>, requires |-> {}],
      [name |-> "requests", version |-> "2.31.0", meta |-> "ok",
       top |-> <<[module |-> "requests", is_pkg |-> TRUE]>>,
       requires |-> {"urllib3"}],
      [name |-> "urllib3", version |-> "2.0.7", meta |-> "ok",
       top |-> <<[module |-> "urllib3", is_pkg |-> TRUE]>>, requires |-> {}],
      [name |-> "mock", version |-> "5.1.0", meta |-> "ok",
       top |-> <<[module |-> "mock", is_pkg |-> TRUE]>>, requires |-> {}],
      [name |-> "pandas", version |-> "2.1.0", meta |-> "ok",
       top |-> <<[module |-> "pandas", is_pkg |-> TRUE]>>, requires |-> {}],
      [name |-> "pip", version |-> "24.0", meta |-> "ok",
       top |-> <<[module |-> "pip", is_pkg |-> TRUE]>>, requires |-> {}] }

\* The environments: the installed distributions in the order
\* importlib.metadata.distributions() yields them.
Environments == DistinctSeqs(Catalog, MaxInstalled)

\* Distributions whose metadata is damaged: attrs has no readable
\* top_level.txt (read_text raises); ghost is a dist-info directory left
\* without its METADATA file, so that dist.metadata['Name'] raises.
FaultyDistributions ==
    { [name |-> "attrs", version |-> "23.1.0", meta |-> "no_top_level",
       top |-> <<[module |-> "attr", is_pkg |-> TRUE]>>, requires |-> {}],
      [name |-> "ghost", version |-> "", meta |-> "unreadable",
       top |-> <<>>, requires |-> {}] }

\* The environments that may hold damaged distributions too.
FaultyEnvironments == DistinctSeqs(Catalog \cup FaultyDistributions, MaxInstalled)

\* The modules pkgutil.iter_modules() finds in the interpreter's own library
\* directories (a part of them: the ones the model's imports can name).
StdlibOnPath ==
    { [module |-> "json", is_pkg |-> TRUE],
      [module |-> "logging", is_pkg |-> TRUE],
      [module |-> "email", is_pkg |-> TRUE],
      [module |-> "os", is_pkg |-> FALSE],
      [module |-> "typing", is_pkg |-> FALSE] }

\* sys.builtin_module_names (a part).
builtin_module_names == {"sys", "time", "math", "builtins"}

\* pkgutil.iter_modules(): every top-level module on sys.path, the library's
\* and the site-packages' alike.
iter_modules(inst) ==
    StdlibOnPath \cup
    UNION {Range(inst[i].top) : i \in 1..Len(inst)}

\* The packages pip-chill leaves out of its listing, and the ones pip freeze
\* leaves out.
PipChillIgnored == {"pip", "setuptools", "wheel", "pkg-resources"}
PipFreezeSkipped == {"pip", "setuptools", "wheel", "distribute"}

\* The names pip knows: a distribution without readable metadata has none.
InstalledNames(inst) ==
    {inst[i].name : i \in {j \in 1..Len(inst) : inst[j].meta # "unreadable"}}

\* The distributions no other installed distribution declares a requirement on.
NotRequired(inst) ==
    {n \in InstalledNames(inst) :
        \A i \in 1..Len(inst) : inst[i].name = n \/ n \notin inst[i].requires}

\* `python -m pip_chill --no-version`: one name per line.
pip_chill(inst) == sorted(NotRequired(inst) \ PipChillIgnored)

\* `python -m pip freeze`: one line per distribution.
pip_freeze(inst) ==
    LET names == sorted(InstalledNames(inst) \ PipFreezeSkipped)
        dist(n) == CHOOSE d \in Range(inst) : d.meta # "unreadable" /\ d.name = n
    IN  [i \in 1..Len(names) |->
            [kind |-> "pinned", name |-> names[i], version |-> dist(names[i]).version]]

\* ------------------------------------------------------- RequirementsWriter

\* The literal list of _get_stdlib_modules.
CuratedStdlib ==
    { "abc", "argparse", "ast", "asyncio", "collections", "configparser",
      "contextlib", "copy", "csv", "datetime", "decimal", "enum", "functools",
      "glob", "hashlib", "http", "inspect", "io", "itertools", "json", "logging",
      "math", "multiprocessing", "os", "pathlib", "pickle", "random", "re",
      "shutil", "signal", "socket", "sqlite3", "ssl", "string", "subprocess",
      "sys", "tempfile", "threading", "time", "traceback", "typing", "unittest",
      "urllib", "uuid", "warnings", "xml", "zipfile" }

get_stdlib_modules(inst) ==
    {m.module : m \in {x \in iter_modules(inst) : x.is_pkg}}
        \cup builtin_module_names
        \cup CuratedStdlib

\* The dict literal of _build_import_package_map, in its order.
ManualPairs ==
    << <<"numpy", "numpy">>, <<"np", "numpy">>, <<"pandas", "pandas">>,
       <<"pd", "pandas">>, <<"matplotlib", "matplotlib">>,
       <<"plt", "matplotlib">>, <<"sklearn", "scikit-learn">>,
       <<"torch", "torch">>, <<"tf", "tensorflow">>, <<"cv2", "opencv-python">>,
       <<"bs4", "beautifulsoup4">>, <<"dotenv", "python-dotenv">>,
       <<"yaml", "pyyaml">>, <<"PIL", "pillow">>, <<"flask", "flask">>,
       <<"django", "django">>, <<"requests", "requests">>, <<"boto3", "boto3">>,
       <<"sqlalchemy", "sqlalchemy">>, <<"pytest", "pytest">>,
       <<"fastapi", "fastapi">>, <<"typer", "typer">>, <<"click", "click">>,
       <<"rich", "rich">>, <<"tomli", "tomli">>, <<"tomli_w", "tomli-w">>,
       <<"toml", "toml">>, <<"uvicorn", "uvicorn">>, <<"pydantic", "pydantic">>,
       <<"redis", "redis">>, <<"psycopg2", "psycopg2-binary">>,
       <<"pymongo", "pymongo">>, <<"jwt", "pyjwt">>,
       <<"cryptography", "cryptography">>, <<"unittest", None>>,
       <<"mock", "pytest-mock">>, <<"json", None>>, <<"os", None>>,
       <<"sys", None>>, <<"re", None>>, <<"math", None>>, <<"datetime", None>>,
       <<"collections", None>>, <<"typing", None>>, <<"pathlib", None>>,
       <<"shutil", None>>, <<"subprocess", None>>, <<"argparse", None>>,
       <<"logging", None>>, <<"time", None>> >>

manual_mappings ==
    [k \in {ManualPairs[i][1] : i \in 1..Len(ManualPairs)} |->
        (CHOOSE p \in Range(ManualPairs) : p[1] = k)[2]]

\* The inner loop of _build_import_package_map: the lines of one top_level.txt.
RECURSIVE add_top_level(_, _, _, _)
add_top_level(m, top, pkg_name, j) ==
    IF j > Len(top) THEN m
    ELSE add_top_level(Put(m, lower(top[j].module), pkg_name), top, pkg_name, j + 1)

\* The outer loop of _build_import_package_map over distributions i..Len(inst).
\* A distribution whose metadata cannot be read raises out of the loop into
\* the outer except, which keeps the mappings made so far.
RECURSIVE add_distributions(_, _, _)
add_distributions(m, inst, i) ==
    IF i > Len(inst) THEN m
    ELSE LET dist == inst[i]
         IN  CASE dist.meta = "unreadable" -> m
               [] dist.meta = "no_name" -> add_distributions(m, inst, i + 1)
               [] dist.meta = "no_top_level" ->
                    add_distributions(Put(m, lower(dist.name), dist.name), inst, i + 1)
               [] OTHER ->
                    add_distributions(
                        add_top_level(Put(m, lower(dist.name), dist.name),
                                      dist.top, dist.name, 1),
                        inst, i + 1)

build_import_package_map(inst) == add_distributions(manual_mappings, inst, 1)

\* dict.get(key): None when the key is absent.
Get(m, k) == IF k \in DOMAIN m THEN m[k] ELSE None

\* importlib.metadata.version(name), '' on PackageNotFoundError.
get_package_version(package_name, inst) ==
    LET found == {d \in Range(inst) : /\ d.meta # "unreadable"
                                      /\ canonical(d.name) = canonical(package_name)}
    IN  IF found = {} THEN "" ELSE (CHOOSE d \in found : TRUE).version

map_imports_to_packages(imports, stdlib_modules, import_to_package_map, inst) ==
    LET kept == {n \in imports : n \notin stdlib_modules}
        names == {Get(import_to_package_map, lower(n)) : n \in kept} \ {None}
    IN  [p \in names |-> get_package_version(p, inst)]

\* _get_installed_packages with the fallback of line 189 lost: a failing
\* pip-chill ends the listing.
get_installed_packages_no_fallback(direct_only, chill_ok, freeze_ok, inst) ==
    LET chilled == pip_chill(inst)
        frozen == pip_freeze(inst)
    IN  IF direct_only
        THEN IF chill_ok
             THEN [n \in Range(chilled) |-> get_package_version(n, inst)]
             ELSE EmptyDict
        ELSE IF freeze_ok
             THEN [n \in {frozen[i].name : i \in 1..Len(frozen)} |->
                      (CHOOSE l \in Range(frozen) : l.name = n).version]
             ELSE EmptyDict

\* _get_installed_packages.  chill_ok and freeze_ok say whether the pip_chill
\* and the pip freeze subprocess succeed.
get_installed_packages(direct_only, chill_ok, freeze_ok, inst) ==
    LET chilled == pip_chill(inst)
        frozen == pip_freeze(inst)
        from_chill ==
            [n \in Range(chilled) |-> get_package_version(n, inst)]
        from_freeze ==
            [n \in {frozen[i].name : i \in 1..Len(frozen)} |->
                LET line == CHOOSE l \in Range(frozen) : l.name = n
                IN  IF line.kind = "pinned" THEN line.version ELSE ""]
    IN  IF direct_only /\ chill_ok THEN from_chill
        ELSE IF freeze_ok THEN from_freeze
        ELSE EmptyDict

\* The source files a project tree may hold: path, the directory it is in,
\* whether reading and parsing it succeeds, and the root names of the import
\* statements a successful parse finds in it.
FileCatalog ==
    { [path |-> "app.py", dir |-> ".", fault |-> "none",
       imports |-> {"cv2", "sklearn"}],
      [path |-> "web.py", dir |-> ".", fault |-> "none",
       imports |-> {"requests", "bs4", "os"}],
      [path |-> "broken.py", dir |-> ".", fault |-> "syntax",
       imports |-> {"mock"}] }

\* The project trees, the files in the order the walk visits them.
Trees == DistinctSeqs(FileCatalog, MaxFiles)

\* A file that is not UTF-8: read raises UnicodeDecodeError before any parse.
UndecodableFiles ==
    { [path |-> "legacy.py", dir |-> ".", fault |-> "decode",
       imports |-> {"flask"}] }

\* The project trees that may hold it too.
FaultyTrees == DistinctSeqs(FileCatalog \cup UndecodableFiles, MaxFiles)

exclude_dirs ==
    {".git", ".hg", ".svn", "__pycache__", ".eggs", "*.egg-info", "dist", "build",
     "venv", ".venv", "env", ".env"}

dev_dirs == {"tests", "test", ".tox", ".github", ".gitlab", ".circleci"}

find_python_files(tree, include_dev) ==
    LET excluded == IF include_dev THEN exclude_dirs ELSE exclude_dirs \cup dev_dirs
    IN  SelectSeq(tree, LAMBDA f : f.dir \notin excluded)

\* _scan_imports with the handlers around one file lost: the first file that
\* fails ends the scan.
RECURSIVE scan_files_aborting(_, _, _)
scan_files_aborting(imports, py_files, i) ==
    IF i > Len(py_files) THEN imports
    ELSE IF py_files[i].fault # "none" THEN imports
    ELSE scan_files_aborting(imports \cup py_files[i].imports, py_files, i + 1)

\* _scan_imports: a file that fails to read or parse adds nothing.
RECURSIVE scan_files(_, _, _)
scan_files(imports, py_files, i) ==
    IF i > Len(py_files) THEN imports
    ELSE scan_files(
            IF py_files[i].fault = "none" THEN imports \cup py_files[i].imports
            ELSE imports,
            py_files, i + 1)

scan_project_imports(tree, include_dev) ==
    scan_files({}, find_python_files(tree, include_dev), 1)

generate_from_imports(tree, include_dev, stdlib_modules, import_to_package_map, inst) ==
    map_imports_to_packages(scan_project_imports(tree, include_dev),
                            stdlib_modules, import_to_package_map, inst)

\* The dependency strings a manifest of the model may hold.
DepStrings == {"requests", "Requests>=2.0", "pandas", "flask", "typing"}

\* re.match(r'^([a-zA-Z0-9_.-]+)', dep).group(1): the longest run of name
\* characters the string starts with (None when it starts with none).
match_name(dep) ==
    CASE dep = "Requests>=2.0" -> "Requests"
      [] dep = "scikit_learn==1.3.0" -> "scikit_learn"
      [] dep = "" -> None
      [] OTHER -> dep

RECURSIVE add_dependencies(_, _, _, _)
add_dependencies(packages, dependencies, i, inst) ==
    IF i > Len(dependencies) THEN packages
    ELSE LET pkg_name == match_name(dependencies[i])
         IN  add_dependencies(
                IF pkg_name # None
                THEN Put(packages, pkg_name, get_package_version(pkg_name, inst))
                ELSE packages,
                dependencies, i + 1, inst)

\* generate_from_pyproject.  pyproject is NoFile or the manifest's dependencies
\* list; load_ok says whether toml.load of the handle opened 'rb' returns (any
\* exception ends in the except clause with the packages gathered so far, none).
generate_from_pyproject(pyproject, load_ok, inst) ==
    IF pyproject = NoFile THEN EmptyDict
    ELSE IF ~load_ok THEN EmptyDict
    ELSE add_dependencies(EmptyDict, pyproject, 1, inst)

\* The methods update_requirements is called with; "poetry" is none it knows.
Methods == {"auto", "env", "imports", "pyproject", "poetry"}

\* update_requirements with the final else lost: a method it does not know is
\* taken as imports.
resolve_packages_defaulting(method, direct_only, include_dev, chill_ok, freeze_ok, load_ok, pyproject, tree, stdlib_modules, import_to_package_map, inst) ==
    LET chosen ==
            IF method = "auto"
            THEN IF pyproject # NoFile THEN "pyproject" ELSE "imports"
            ELSE method
    IN  CASE chosen = "env" ->
                [raised |-> "",
                 packages |-> get_installed_packages(direct_only, chill_ok,
                                                     freeze_ok, inst)]
          [] chosen = "pyproject" ->
                [raised |-> "",
                 packages |-> generate_from_pyproject(pyproject, load_ok, inst)]
          [] OTHER ->
                [raised |-> "",
                 packages |-> generate_from_imports(tree, include_dev, stdlib_modules,
                                                    import_to_package_map, inst)]

\* The first half of update_requirements: the method chosen and its packages,
\* or the ValueError of the final else.
resolve_packages(method, direct_only, include_dev, chill_ok, freeze_ok, load_ok, pyproject, tree, stdlib_modules, import_to_package_map, inst) ==
    LET chosen ==
            IF method = "auto"
            THEN IF pyproject # NoFile THEN "pyproject" ELSE "imports"
            ELSE method
    IN  CASE chosen = "env" ->
                [raised |-> "",
                 packages |-> get_installed_packages(direct_only, chill_ok,
                                                     freeze_ok, inst)]
          [] chosen = "imports" ->
                [raised |-> "",
                 packages |-> generate_from_imports(tree, include_dev, stdlib_modules,
                                                    import_to_package_map, inst)]
          [] chosen = "pyproject" ->
                [raised |-> "",
                 packages |-> generate_from_pyproject(pyproject, load_ok, inst)]
          [] OTHER -> [raised |-> "ValueError", packages |-> EmptyDict]

\* The f.write calls of write_requirements before the loop, as lines.
HeaderLines ==
    << "# This file was generated by metapkg",
       "# https://github.com/yourusername/metapkg",
       "" >>

\* The line of write_requirements with the test of the version lost.
requirement_line_always_pinned(pkg_name, version) ==
    pkg_name \o "==" \o version

\* The line the loop of write_requirements writes for one item.
requirement_line(pkg_name, version) ==
    IF version # "" THEN pkg_name \o "==" \o version ELSE pkg_name

\* The order the loop of write_requirements visits the packages in.
write_order(packages) == sorted(DOMAIN packages)

\* ------------------------------------------------------------- toml_manager

\* add_dependency with the membership test lost.
add_dependency_always(deps, dep) ==
    [deps |-> Append(deps, dep), written |-> TRUE, ret |-> TRUE]

\* add_dependency on an existing manifest: the dependencies list afterwards,
\* whether write_toml was called, and the value returned.
add_dependency(deps, dep) ==
    IF dep \notin Range(deps)
    THEN [deps |-> Append(deps, dep), written |-> TRUE, ret |-> TRUE]
    ELSE [deps |-> deps, written |-> FALSE, ret |-> FALSE]

\* get_dependencies: [] when there is no manifest.
get_dependencies(pyproject) == IF pyproject = NoFile THEN <<>> ELSE pyproject

\* ----------------------------------------------------------- import_scanner

\* scan_imports of import_scanner.py: every .py file under the working
\* directory, a file that raises skipped.
RECURSIVE scan_imports(_, _, _)
scan_imports(imports, tree, i) ==
    IF i > Len(tree) THEN imports
    ELSE scan_imports(
            IF tree[i].fault = "none" THEN imports \cup tree[i].imports ELSE imports,
            tree, i + 1)

\* suggest_missing_deps: the names it prints (the empty set: "All imports are
\* covered").
suggest_missing_deps(pyproject, tree) ==
    LET installed_deps == Range(get_dependencies(pyproject))
        scanned == scan_imports({}, tree, 1)
    IN  scanned \ installed_deps

\* ------------------------------------------------------------------- state

VARIABLES
    installed,              \* the environment: the installed distributions
    sources,                \* the project tree: its .py files
    manifest,               \* pyproject.toml: NoFile or its dependencies list
    reqFile,                \* requirements.txt: NoFile or its lines
    prevFile,               \* requirements.txt as it was before the run
    stdlib_modules,         \* RequirementsWriter.stdlib_modules
    import_to_package_map,  \* RequirementsWriter.import_to_package_map
    pc,                     \* where update_requirements is
    call,                   \* the arguments of the call and what its subprocesses did
    packages,               \* the packages update_requirements resolved
    written,                \* how many requirement lines the loop has written
    cli                     \* the last command of cli.py and what it echoed

vars == << installed, sources, manifest, reqFile, prevFile, stdlib_modules,
           import_to_package_map, pc, call, packages, written, cli >>

NoCall == [method |-> "", direct_only |-> TRUE, chill |-> "not run",
           freeze |-> "not run", load |-> "not run", raised |-> ""]

NoCommand == [cmd |-> "", package |-> "", added |-> FALSE, wrote |-> FALSE,
              raised |-> "", missing |-> {}]

\* The manifests a requirements run may find.
WriterManifests ==
    { NoFile, <<>>, <<"pandas", "flask">>, <<"Requests>=2.0", "typing">> }

\* The requirements.txt a run may find: none, or one an earlier run wrote.
OldFiles == { NoFile, HeaderLines \o <<"requests==2.31.0">> }

\* A RequirementsWriter constructed in a project, before update_requirements.
Init ==
    /\ installed \in Environments
    /\ sources \in Trees
    /\ manifest \in WriterManifests
    /\ reqFile \in OldFiles
    /\ prevFile = reqFile
    /\ stdlib_modules = get_stdlib_modules(installed)
    /\ import_to_package_map = build_import_package_map(installed)
    /\ pc = "idle"
    /\ call = NoCall
    /\ packages = EmptyDict
    /\ written = 0
    /\ cli = NoCommand

\* ----------------------------------------------- update_requirements, by step

\* update_requirements up to the call of write_requirements: the packages of
\* the method, or ValueError.
update_requirements ==
    /\ pc = "idle"
    /\ \E method \in Methods :
       \E direct_only \in (IF method = "env" THEN BOOLEAN ELSE {TRUE}) :
       \E include_dev \in (IF method \in {"auto", "imports"} THEN BOOLEAN ELSE {FALSE}) :
       LET chosen == IF method = "auto"
                     THEN IF manifest # NoFile THEN "pyproject" ELSE "imports"
                     ELSE method
           runs_chill == chosen = "env" /\ direct_only
           loads == chosen = "pyproject" /\ manifest # NoFile
       IN  \E chill_ok \in (IF runs_chill THEN BOOLEAN ELSE {TRUE}) :
           \E freeze_ok \in (IF chosen = "env" /\ ~(runs_chill /\ chill_ok)
                             THEN BOOLEAN ELSE {TRUE}) :
           \E load_ok \in (IF loads THEN BOOLEAN ELSE {TRUE}) :
           LET r == resolve_packages(method, direct_only, include_dev, chill_ok,
                                     freeze_ok, load_ok, manifest, sources,
                                     stdlib_modules, import_to_package_map, installed)
               runs_freeze == chosen = "env" /\ ~(runs_chill /\ chill_ok)
           IN  /\ call' = [method |-> method,
                           direct_only |-> direct_only,
                           chill |-> IF ~runs_chill THEN "not run"
                                     ELSE IF chill_ok THEN "ok" ELSE "failed",
                           freeze |-> IF ~runs_freeze THEN "not run"
                                      ELSE IF freeze_ok THEN "ok" ELSE "failed",
                           load |-> IF ~loads THEN "not run"
                                    ELSE IF load_ok THEN "ok" ELSE "failed",
                           raised |-> r.raised]
               /\ packages' = r.packages
               /\ pc' = IF r.raised = "" THEN "open" ELSE "raised"
    /\ UNCHANGED << installed, sources, manifest, reqFile, prevFile, stdlib_modules,
                    import_to_package_map, written, cli >>

\* write_requirements: open(output_path, 'w') creates or truncates the file.
open_output ==
    /\ pc = "open"
    /\ reqFile' = <<>>
    /\ pc' = "header"
    /\ UNCHANGED << installed, sources, manifest, prevFile, stdlib_modules,
                    import_to_package_map, call, packages, written, cli >>

\* open raises (the path cannot be written): nothing is touched.
open_fails ==
    /\ pc = "open"
    /\ call' = [call EXCEPT !.raised = "OSError"]
    /\ pc' = "raised"
    /\ UNCHANGED << installed, sources, manifest, reqFile, prevFile, stdlib_modules,
                    import_to_package_map, packages, written, cli >>

\* The two f.write calls before the loop.
write_header ==
    /\ pc = "header"
    /\ reqFile' = reqFile \o HeaderLines
    /\ written' = 0
    /\ pc' = "lines"
    /\ UNCHANGED << installed, sources, manifest, prevFile, stdlib_modules,
                    import_to_package_map, call, packages, cli >>

\* One turn of the loop over sorted(packages.items()).
write_requirement ==
    /\ pc = "lines"
    /\ written < Len(write_order(packages))
    /\ LET pkg_name == write_order(packages)[written + 1]
       IN  reqFile' = Append(reqFile, requirement_line(pkg_name, packages[pkg_name]))
    /\ written' = written + 1
    /\ UNCHANGED << installed, sources, manifest, prevFile, stdlib_modules,
                    import_to_package_map, pc, call, packages, cli >>

\* The loop is over: the with block closes the file and the path is returned.
close_output ==
    /\ pc = "lines"
    /\ written = Len(write_order(packages))
    /\ pc' = "done"
    /\ UNCHANGED << installed, sources, manifest, reqFile, prevFile, stdlib_modules,
                    import_to_package_map, call, packages, written, cli >>

\* An f.write raises (the disk is full, the device fails): the with block
\* closes the file with what was written and the error goes to the caller.
write_fails ==
    /\ pc \in {"header", "lines"}
    /\ call' = [call EXCEPT !.raised = "OSError"]
    /\ pc' = "raised"
    /\ UNCHANGED << installed, sources, manifest, reqFile, prevFile, stdlib_modules,
                    import_to_package_map, packages, written, cli >>

Next ==
    \/ update_requirements
    \/ open_output
    \/ open_fails
    \/ write_header
    \/ write_requirement
    \/ close_output
    \/ write_fails

Spec == Init /\ [][Next]_vars

\* ------------------------------------------------------ the commands of cli.py

\* A project with no manifest yet, in an environment with nothing installed.
InitCli ==
    /\ installed = <<>>
    /\ sources \in Trees
    /\ manifest = NoFile
    /\ reqFile = NoFile
    /\ prevFile = NoFile
    /\ stdlib_modules = get_stdlib_modules(installed)
    /\ import_to_package_map = build_import_package_map(installed)
    /\ pc = "idle"
    /\ call = NoCall
    /\ packages = EmptyDict
    /\ written = 0
    /\ cli = NoCommand

\* init: init_project writes a manifest with no dependencies, unless one exists.
init ==
    /\ manifest' = IF manifest = NoFile THEN <<>> ELSE manifest
    /\ cli' = [NoCommand EXCEPT !.cmd = "init", !.wrote = (manifest = NoFile)]
    /\ UNCHANGED << installed, sources, reqFile, prevFile, stdlib_modules,
                    import_to_package_map, pc, call, packages, written >>

\* add <package>: add_dependency, then the echo of what it returned.
add ==
    \E package \in DepStrings :
        /\ IF manifest = NoFile
           THEN /\ cli' = [NoCommand EXCEPT !.cmd = "add", !.package = package,
                                            !.raised = "FileNotFoundError"]
                /\ UNCHANGED manifest
           ELSE LET r == add_dependency(manifest, package)
                IN  /\ manifest' = IF r.written THEN r.deps ELSE manifest
                    /\ cli' = [NoCommand EXCEPT !.cmd = "add", !.package = package,
                                                !.added = r.ret,
                                                !.wrote = r.written]
        /\ UNCHANGED << installed, sources, reqFile, prevFile, stdlib_modules,
                        import_to_package_map, pc, call, packages, written >>

\* scan: suggest_missing_deps prints the names it finds missing.
scan ==
    /\ cli' = [NoCommand EXCEPT !.cmd = "scan",
                                !.missing = suggest_missing_deps(manifest, sources)]
    /\ UNCHANGED << installed, sources, manifest, reqFile, prevFile, stdlib_modules,
                    import_to_package_map, pc, call, packages, written >>

NextCli ==
    \/ init
    \/ add
    \/ scan

SpecCli == InitCli /\ [][NextCli]_vars

\* ------------------------------------------------------------------ claims

Recognized == {"auto", "env", "imports", "pyproject"}

\* The installed version of a distribution, "" when it is not installed.
InstalledVersion(name) ==
    IF \E d \in Range(installed) : d.name = name
    THEN (CHOOSE d \in Range(installed) : d.name = name).version
    ELSE ""

\* C1: with no manifest and method auto, a tree whose only file imports cv2 and
\* sklearn resolves to exactly opencv-python and scikit-learn in every
\* environment, each with its version when installed and bare when not.
C1_AutoResolvesBoth ==
    (/\ pc = "done"
     /\ call.method = "auto"
     /\ manifest = NoFile
     /\ Len(sources) = 1
     /\ sources[1].imports = {"cv2", "sklearn"})
    => /\ DOMAIN packages = {"opencv-python", "scikit-learn"}
       /\ \A p \in DOMAIN packages : packages[p] = InstalledVersion(p)

\* The root names import_scanner finds: those of the files that parse.
ScannedNames ==
    UNION {sources[i].imports : i \in {j \in 1..Len(sources) : sources[j].fault = "none"}}

\* C2: what scan suggests is the scanned names, less the standard library's,
\* each mapped to its distribution (unmapped ones dropped), less the names the
\* manifest declares.
C2_ScanSuggestsMappedMissing ==
    cli.cmd = "scan" =>
        cli.missing =
            ({Get(import_to_package_map, lower(n)) :
                  n \in ScannedNames \ stdlib_modules} \ {None})
                \ Range(get_dependencies(manifest))

\* The distributions some other installed distribution declares a requirement on.
RequiredByAnother ==
    {n \in InstalledNames(installed) :
        \E d \in Range(installed) : d.name # n /\ n \in d.requires}

EnvDirectRun == pc # "idle" /\ call.method = "env" /\ call.direct_only

\* C3 as claimed: the environment method with direct_only, the run in which
\* pip-chill fails included, returns no distribution that another installed
\* distribution requires.
C3_NoRequiredDistribution ==
    EnvDirectRun => DOMAIN packages \cap RequiredByAnother = {}

\* C3 as amended: with direct_only, when pip-chill succeeds the mapping holds
\* no distribution another installed one requires and every other installed
\* one but those pip-chill itself leaves out; when pip-chill fails the mapping
\* is the whole pip freeze listing, required distributions included, and it is
\* empty when pip freeze fails too.
C3_ChillFilteredFreezeUnfiltered ==
    EnvDirectRun =>
        /\ call.chill = "ok" =>
              /\ DOMAIN packages \cap RequiredByAnother = {}
              /\ (InstalledNames(installed) \ RequiredByAnother) \ PipChillIgnored
                    \subseteq DOMAIN packages
        /\ (call.chill = "failed" /\ call.freeze = "ok") =>
              DOMAIN packages = InstalledNames(installed) \ PipFreezeSkipped
        /\ (call.chill = "failed" /\ call.freeze = "failed") =>
              DOMAIN packages = {}

\* C3 witness: pip-chill failed, pip freeze answered, and requests and the
\* urllib3 it requires are both in the mapping.
C3_Witness ==
    /\ EnvDirectRun
    /\ call.chill = "failed"
    /\ call.freeze = "ok"
    /\ {"requests", "urllib3"} \subseteq DOMAIN packages
    /\ "urllib3" \in RequiredByAnother

\* C4: whatever the method, no key of the mapping update_requirements writes is
\* a name stdlib_modules contains.
C4_NoStdlibKey ==
    pc = "done" => DOMAIN packages \cap stdlib_modules = {}

\* C5: a call with a method outside the recognized set raises ValueError and
\* leaves the output file as it was (absent or with its old content).
C5_UnknownMethodRaises ==
    (pc # "idle" /\ call.method \notin Recognized)
    => /\ pc = "raised"
       /\ call.raised = "ValueError"
       /\ reqFile = prevFile

\* C5 witness: an unknown method was rejected while an older file exists.
C5_Witness ==
    /\ pc = "raised"
    /\ call.method = "poetry"
    /\ prevFile # NoFile
    /\ reqFile = prevFile

\* The lines after the first h are one per package, each name==version or the
\* bare name, in ascending order of name.
BodyAfter(h) ==
    LET line(k) == IF packages[k] = "" THEN k ELSE k \o "==" \o packages[k]
        body == (h + 1)..Len(reqFile)
    IN  /\ Len(reqFile) = h + Cardinality(DOMAIN packages)
        /\ \A k \in DOMAIN packages : \E i \in body : reqFile[i] = line(k)
        /\ \A i \in body : \E k \in DOMAIN packages : reqFile[i] = line(k)
        /\ \A i, j \in body : \A k1, k2 \in DOMAIN packages :
              (i < j /\ reqFile[i] = line(k1) /\ reqFile[j] = line(k2))
                  => Rank(k1) < Rank(k2)

\* C6 as claimed: the written file is one generator comment line, then one
\* line per requirement and nothing else.
C6_OneCommentThenLines ==
    pc = "done" =>
        /\ Len(reqFile) >= 1
        /\ reqFile[1] = "# This file was generated by metapkg"
        /\ BodyAfter(1)

\* C6 as amended: the written file is two comment lines and a blank line, then
\* one line per requirement and nothing else, name==version or the bare name,
\* ascending by name.
C6_HeaderThenSortedLines ==
    pc = "done" =>
        /\ Len(reqFile) >= 3
        /\ reqFile[1] = "# This file was generated by metapkg"
        /\ reqFile[2] = "# https://github.com/yourusername/metapkg"
        /\ reqFile[3] = ""
        /\ BodyAfter(3)

\* C6 witness: {pandas: 2.1.0, flask: no version} was written as the header,
\* then flask, then pandas==2.1.0.
C6_Witness ==
    /\ pc = "done"
    /\ DOMAIN packages = {"pandas", "flask"}
    /\ packages["pandas"] = "2.1.0"
    /\ packages["flask"] = ""
    /\ Len(reqFile) = 5
    /\ reqFile[4] = "flask"
    /\ reqFile[5] = "pandas==2.1.0"

\* The distribution an import name stands for: its mapping, or the name itself.
DistributionOf(n) ==
    LET m == Get(import_to_package_map, lower(n))
    IN  IF m = None THEN n ELSE m

\* C7: scan never suggests an import whose distribution the manifest declares,
\* whatever the casing, the hyphens or the version constraint of the entry.
C7_NoDeclaredSuggested ==
    cli.cmd = "scan" =>
        \A n \in cli.missing :
            ~ \E d \in Range(get_dependencies(manifest)) :
                  /\ match_name(d) # None
                  /\ canonical(match_name(d)) = canonical(DistributionOf(n))

NoDuplicates(deps) ==
    \A i, j \in 1..Len(deps) : deps[i] = deps[j] => i = j

CompleteContent ==
    LET order == sorted(DOMAIN packages)
    IN  HeaderLines \o
        [i \in 1..Len(order) |->
            IF packages[order[i]] = "" THEN order[i]
            ELSE order[i] \o "==" \o packages[order[i]]]

\* C9: at every point of a run, a failing one included, the output file holds
\* its complete previous content (or is absent) or the complete new content.
C9_NeverPartial ==
    \/ reqFile = prevFile
    \/ (pc # "idle" /\ reqFile = CompleteContent)

\* C10: every key of the manual table that a lookup can reach (the keys in
\* lower case) resolves to the manual table's value whatever is installed, and
\* to nothing when that value is the none marker.
C10_ManualWins ==
    \A k \in {x \in DOMAIN manual_mappings : lower(x) = x} :
        Get(import_to_package_map, lower(k)) = manual_mappings[k]

\* Spellings of a key of the manual table that differ in case only.
CaseVariants(k) ==
    CASE k = "PIL" -> {"PIL", "Pil", "pil"}
      [] k = "requests" -> {"requests", "Requests", "REQUESTS"}
      [] OTHER -> {k}

\* C11: with nothing installed, every key of the manual table, the ones with
\* upper-case letters included, resolves in every spelling of its case to the
\* table's entry (PIL to pillow).
C11_LookupIgnoresCase ==
    installed = <<>> =>
        \A k \in DOMAIN manual_mappings : \A v \in CaseVariants(k) :
            Get(import_to_package_map, lower(v)) = manual_mappings[k]

\* --------------------------------- a writer made among damaged distributions

\* A RequirementsWriter constructed in an empty project, in an environment
\* that may hold distributions with damaged metadata.
InitMeta ==
    /\ installed \in FaultyEnvironments
    /\ sources = <<>>
    /\ manifest = NoFile
    /\ reqFile = NoFile
    /\ prevFile = NoFile
    /\ stdlib_modules = get_stdlib_modules(installed)
    /\ import_to_package_map = build_import_package_map(installed)
    /\ pc = "idle"
    /\ call = NoCall
    /\ packages = EmptyDict
    /\ written = 0
    /\ cli = NoCommand

SpecMeta == InitMeta /\ [][Next]_vars

\* C12: a distribution whose name cannot be read adds nothing to the table,
\* and every other installed distribution, enumerated before it or after it,
\* has its self-mapping and (where its top_level.txt can be read) the mapping
\* of each of its top-level modules in the table.
C12_OthersStillContribute ==
    \A i \in 1..Len(installed) :
        LET d == installed[i]
        IN  IF d.meta \in {"unreadable", "no_name"}
            THEN \A k \in DOMAIN import_to_package_map :
                    import_to_package_map[k] = d.name =>
                        (k \in DOMAIN manual_mappings /\ manual_mappings[k] = d.name)
            ELSE /\ Get(import_to_package_map, lower(d.name)) = d.name
                 /\ d.meta = "ok" =>
                        \A j \in 1..Len(d.top) :
                            Get(import_to_package_map, lower(d.top[j].module)) = d.name

\* ------------------------------------------- scanning a tree with bad files

\* A project without manifest whose tree may hold files that do not parse or
\* decode, in an environment with nothing installed.
InitScan ==
    /\ installed = <<>>
    /\ sources \in FaultyTrees
    /\ manifest = NoFile
    /\ reqFile = NoFile
    /\ prevFile = NoFile
    /\ stdlib_modules = get_stdlib_modules(installed)
    /\ import_to_package_map = build_import_package_map(installed)
    /\ pc = "idle"
    /\ call = NoCall
    /\ packages = EmptyDict
    /\ written = 0
    /\ cli = NoCommand

\* The two scanners: the scan command and the first half of update_requirements.
NextScan ==
    \/ scan
    \/ update_requirements

SpecScan == InitScan /\ [][NextScan]_vars

\* The run resolved its packages from the scan of the tree.
ScannedRun ==
    /\ pc # "idle"
    /\ \/ call.method = "imports"
       \/ call.method = "auto" /\ manifest = NoFile

\* C13: neither scanner raises on a bad file; what each returns holds the
\* root names of every file that parses, whatever the order of the files, and
\* no name of a file that fails.  (Seen in what scan prints with no manifest,
\* and in the packages the names of update_requirements resolve to.)
C13_ScanSkipsBadFiles ==
    /\ cli.cmd = "scan" =>
          /\ cli.raised = ""
          /\ cli.missing = ScannedNames \ Range(get_dependencies(manifest))
    /\ ScannedRun =>
          /\ call.raised = ""
          /\ DOMAIN packages =
                {Get(import_to_package_map, lower(n)) :
                     n \in ScannedNames \ stdlib_modules} \ {None}

\* C13 witness: in a tree whose first file fails and whose second parses, both
\* scanners ran and each returned the second file's names.
C13_Witness ==
    /\ Len(sources) = 2
    /\ sources[1].fault # "none"
    /\ sources[2].fault = "none"
    /\ cli.cmd = "scan"
    /\ sources[2].imports \subseteq cli.missing
    /\ sources[1].imports \cap cli.missing = {}
    /\ ScannedRun
    /\ packages # EmptyDict

====
